---- MODULE Spec2Model ----
(***************************************************************************)
(* Model of CPPCore::TPoolAllocator<T>                                     *)
(* (include/cppcore/Memory/TPoolAllocator.h).                              *)
(*                                                                         *)
(* The heap is the sequence of all Pool objects ever created with `new`;   *)
(* a Pool pointer is an index into it (0 is nullptr).  `bufs` is the       *)
(* sequence of all element arrays ever created with `new T[]`.  Deleted    *)
(* objects stay in the sequences with a delete counter, so that dangling   *)
(* pointers, leaks and double deletes are visible.                         *)
(*                                                                         *)
(* Undefined behaviour (a read or write through a dangling or null Pool    *)
(* pointer, a second delete of the same object) is recorded in `fault`;    *)
(* the step that commits it either terminates the process (status          *)
(* "crashed") or carries on with what the freed memory still holds (the    *)
(* fields as the destructor left them).  A run is followed up to its first *)
(* undefined step: what a process does after it is not modelled.           *)
(*                                                                         *)
(* The second part models CPPCore::Variant                                 *)
(* (include/cppcore/Common/Variant.h) with two Variant objects and the     *)
(* byte buffers they allocate, under the specification SpecVariant.  Each  *)
(* specification leaves the other part's variables as constructed.         *)
(*                                                                         *)
(* The third part is CPPCore::TQueue<float> as test/container/             *)
(* TQueueTest.cpp uses it, under the specification SpecQueue.              *)
(***************************************************************************)
EXTENDS Integers, Sequences, FiniteSets, TLC

\* Largest element count passed to a constructor, resize() or reserve()
\* (the smallest is 1: the pool is specified for element counts above 0).
MaxSize == 2
\* Largest number of Pool objects held at one time.
MaxPools == 3

Sizes == 1..MaxSize
Null == 0
NullPtr == [buf |-> Null, idx |-> 0]

VARIABLES
    heap,        \* Seq of Pool objects: m_poolsize, m_pool, m_currentIdx, m_next, deleted
    bufs,        \* Seq of element arrays: freed (number of delete[] on it)
    m_first,
    m_current,
    m_freeList,
    m_capacity,
    status,      \* "alive" | "destroyed" (destructor ran) | "crashed"
    fault,       \* kinds of undefined behaviour committed so far
    lastOp,      \* the operation that led to this state
    arg,         \* the size it was called with (0 for an operation that takes none)
    ptr,         \* what the last alloc() returned (NullPtr after other operations)
    grew,        \* the last alloc() grew the pool: "no", by a "new" or by a "reused" Pool
    issued,      \* slots returned by alloc() since the last release/clear/reserve
    sized,       \* a size was given by a constructor, resize() or reserve()
    cleared,     \* clear() was called and neither resize() nor reserve() since
    scn          \* progress of the run construct(n), n+1 allocs, release(), n+1 allocs

\* Variant
VARIABLES
    obj,         \* the Variant objects: m_Type, m_BufferSize, m_pData, life
    vmem,        \* Seq of byte buffers made by new[]: size, data, freed
    vfault,      \* kinds of undefined behaviour committed so far
    vop          \* the last operation when it was x = y ("assign"), the copy
                 \* construction of x from y ("copy") or a comparison ("eq");
                 \* "call" for every other one

poolVars == <<heap, bufs, m_first, m_current, m_freeList, m_capacity, status, fault,
              lastOp, arg, ptr, grew, issued, sized, cleared, scn>>
variantVars == <<obj, vmem, vfault, vop>>
\* TQueue
VARIABLES
    f32Queue,    \* the items in the queue, oldest first
    qval,        \* val: the item the last dequeue() delivered
    hasItems,    \* what the last dequeue() returned
    qop,         \* the last operation: "construct", "enqueue", "dequeue" (an item
                 \* was delivered), "empty" (dequeue() found no item), "clear"
    enqueued,    \* the items passed to enqueue() since construction or clear()
    dequeues     \* the number of dequeue() calls that delivered an item since then

queueVars == <<f32Queue, qval, hasItems, qop, enqueued, dequeues>>
vars == <<poolVars, variantVars, queueVars>>

\* TQueue<float> f32Queue; bool hasItems = false; float val = 0.0f;
QueueInit ==
    /\ f32Queue = <<>>
    /\ qval = 0
    /\ hasItems = FALSE
    /\ qop = "construct"
    /\ enqueued = <<>>
    /\ dequeues = 0

\* the objects a and b, both made by Variant(), and no operation yet
Names == {"a", "b"}
Variant0 == [m_Type |-> "None", m_BufferSize |-> 0, m_pData |-> Null, life |-> "alive"]
VOp(op, x, y, ret) == [op |-> op, x |-> x, y |-> y]
\* a constructor, a setter, clear() or the destructor was called
Call == VOp("call", "a", "a", FALSE)
VariantInit ==
    /\ obj = [x \in Names |-> Variant0]
    /\ vmem = <<>>
    /\ vfault = {}
    /\ vop = Call

(***************************************************************************)
(* The allocator's memory as one value, so that a method calling another   *)
(* method composes.  `ub` collects the undefined behaviour of the call.    *)
(***************************************************************************)
Mem(h, b, f, c, fl, cap) ==
    [heap |-> h, bufs |-> b, m_first |-> f, m_current |-> c,
     m_freeList |-> fl, m_capacity |-> cap, ub |-> {}]

Cur == Mem(heap, bufs, m_first, m_current, m_freeList, m_capacity)

\* An access to Pool object p: undefined when p was deleted.
Touch(s, p) ==
    IF s.heap[p].deleted > 0 THEN [s EXCEPT !.ub = @ \cup {"use_after_free"}] ELSE s

\* new T[n]
NewArray(s, n) ==
    [s EXCEPT !.bufs = Append(@, [freed |-> 0])]

\* new Pool(numItems, prev); the new object is Len(s.heap) + 1
PoolNew(s, numItems, prev) ==
    LET a == NewArray(s, numItems)
    IN  [a EXCEPT !.heap = Append(@, [m_poolsize |-> numItems,
                                      m_pool |-> Len(a.bufs),
                                      m_currentIdx |-> 0,
                                      m_next |-> prev,
                                      deleted |-> 0])]

\* delete p: ~Pool() runs delete[] m_pool and sets m_pool to nullptr
PoolDelete(s, p) ==
    LET c == s.heap[p]
    IN  [s EXCEPT !.bufs = IF c.m_pool # Null
                           THEN [@ EXCEPT ![c.m_pool].freed = @ + 1]
                           ELSE @,
                  !.heap[p].m_pool = Null,
                  !.heap[p].deleted = @ + 1,
                  !.ub = IF c.deleted > 0 THEN @ \cup {"double_delete"} ELSE @]

\* Mutant of getFreePool: the free list is never used.
getFreePoolNone(s) == [pool |-> Null, s |-> s]

\* Mutant of getFreePool: the Pool object handed out stays on the free list.
getFreePoolNoPop(s) ==
    [pool |-> s.m_freeList,
     s |-> IF s.m_freeList # Null THEN Touch(s, s.m_freeList) ELSE s]

getFreePool(s) ==
    [pool |-> s.m_freeList,
     s |-> IF s.m_freeList # Null
           THEN [Touch(s, s.m_freeList) EXCEPT !.m_freeList = s.heap[s.m_freeList].m_next]
           ELSE s]

\* the loop of clear(); steps bounds the walk (the chain is acyclic, see ChainAcyclic)
RECURSIVE clearWalk(_, _, _)
clearWalk(s, next, steps) ==
    IF next = Null \/ steps = 0 THEN s
    ELSE clearWalk(PoolDelete(s, next), s.heap[next].m_next, steps - 1)

\* Mutant of clear: m_current and m_freeList keep their values.
clearKeepsCurrent(s) ==
    IF s.m_current = Null THEN s
    ELSE clearWalk(s, s.m_first, Len(s.heap))

clear(s) ==
    IF s.m_current = Null THEN s
    ELSE [clearWalk(s, s.m_first, Len(s.heap)) EXCEPT !.m_current = Null,
                                                      !.m_freeList = Null]

\* the loop of release()
RECURSIVE releaseWalk(_, _, _)
releaseWalk(s, current, steps) ==
    IF current = Null \/ steps = 0 THEN s
    ELSE releaseWalk([Touch(s, current) EXCEPT !.heap[current].m_currentIdx = 0],
                     s.heap[current].m_next, steps - 1)

\* Mutant of release: the cursors are not rewound.
releaseKeepsCursors(s) ==
    IF s.m_current = Null THEN s
    ELSE IF s.m_first = Null THEN [s EXCEPT !.ub = @ \cup {"null_deref"}]
    ELSE [Touch(s, s.m_first) EXCEPT !.m_freeList = s.heap[s.m_first].m_next,
                                     !.m_current = s.m_first]

\* Mutant of release: the Pool objects after the head are deleted instead of
\* being put on the free list.
releaseDeletes(s) ==
    IF s.m_current = Null THEN s
    ELSE IF s.m_first = Null THEN [s EXCEPT !.ub = @ \cup {"null_deref"}]
    ELSE LET w == releaseWalk(s, s.m_first, Len(s.heap))
             d == clearWalk(w, w.heap[w.m_first].m_next, Len(w.heap))
         IN  [d EXCEPT !.heap[d.m_first].m_next = Null,
                       !.m_freeList = Null,
                       !.m_current = d.m_first]

release(s) ==
    IF s.m_current = Null THEN s
    \* m_first->m_next through a null m_first (no reachable state has it)
    ELSE IF s.m_first = Null THEN [s EXCEPT !.ub = @ \cup {"null_deref"}]
    ELSE LET w == releaseWalk(s, s.m_first, Len(s.heap))
         IN  [w EXCEPT !.m_freeList = w.heap[w.m_first].m_next,
                       !.m_current = w.m_first]

\* Mutant of resize: a new Pool object is not counted in m_capacity.
resizeNoCapacity(s, growSize) ==
    LET s0 == IF s.m_current # Null THEN Touch(s, s.m_current) ELSE s
    IN  IF s.m_current # Null /\ growSize < s.heap[s.m_current].m_poolsize THEN s0
        ELSE IF s.m_first = Null
        THEN [PoolNew(s0, growSize, Null) EXCEPT !.m_first = Len(s0.heap) + 1,
                                                 !.m_current = Len(s0.heap) + 1,
                                                 !.m_capacity = @ + growSize]
        ELSE LET g == getFreePool(s0)
                 t == IF g.pool = Null
                      THEN [PoolNew(g.s, growSize, Null) EXCEPT !.m_capacity = @]
                      ELSE g.s
                 pool == IF g.pool = Null THEN Len(g.s.heap) + 1 ELSE g.pool
             IN  IF t.m_current = Null
                 THEN [t EXCEPT !.ub = @ \cup {"null_deref"}, !.m_current = pool]
                 ELSE [t EXCEPT !.heap[t.m_current].m_next = pool, !.m_current = pool]

\* Mutant of resize: m_capacity is assigned the grow size instead of growing by it.
resizeAssignsCapacity(s, growSize) ==
    LET s0 == IF s.m_current # Null THEN Touch(s, s.m_current) ELSE s
    IN  IF s.m_current # Null /\ growSize < s.heap[s.m_current].m_poolsize THEN s0
        ELSE IF s.m_first = Null
        THEN [PoolNew(s0, growSize, Null) EXCEPT !.m_first = Len(s0.heap) + 1,
                                                 !.m_current = Len(s0.heap) + 1,
                                                 !.m_capacity = growSize]
        ELSE LET g == getFreePool(s0)
                 t == IF g.pool = Null
                      THEN [PoolNew(g.s, growSize, Null) EXCEPT !.m_capacity = growSize]
                      ELSE g.s
                 pool == IF g.pool = Null THEN Len(g.s.heap) + 1 ELSE g.pool
             IN  IF t.m_current = Null
                 THEN [t EXCEPT !.ub = @ \cup {"null_deref"}, !.m_current = pool]
                 ELSE [t EXCEPT !.heap[t.m_current].m_next = pool, !.m_current = pool]

\* Mutant of resize: a grow size below m_current's size is not turned away.
resizeAnySize(s, growSize) ==
    LET s0 == IF s.m_current # Null THEN Touch(s, s.m_current) ELSE s
    IN  IF s.m_first = Null
        THEN [PoolNew(s0, growSize, Null) EXCEPT !.m_first = Len(s0.heap) + 1,
                                                 !.m_current = Len(s0.heap) + 1,
                                                 !.m_capacity = @ + growSize]
        ELSE LET g == getFreePool(s0)
                 t == IF g.pool = Null
                      THEN [PoolNew(g.s, growSize, Null) EXCEPT !.m_capacity = @ + growSize]
                      ELSE g.s
                 pool == IF g.pool = Null THEN Len(g.s.heap) + 1 ELSE g.pool
             IN  IF t.m_current = Null
                 THEN [t EXCEPT !.ub = @ \cup {"null_deref"}, !.m_current = pool]
                 ELSE [t EXCEPT !.heap[t.m_current].m_next = pool, !.m_current = pool]

resize(s, growSize) ==
    LET s0 == IF s.m_current # Null THEN Touch(s, s.m_current) ELSE s
    IN  IF s.m_current # Null /\ growSize < s.heap[s.m_current].m_poolsize THEN s0
        ELSE IF s.m_first = Null
        THEN [PoolNew(s0, growSize, Null) EXCEPT !.m_first = Len(s0.heap) + 1,
                                                 !.m_current = Len(s0.heap) + 1,
                                                 !.m_capacity = @ + growSize]
        ELSE LET g == getFreePool(s0)
                 t == IF g.pool = Null
                      THEN [PoolNew(g.s, growSize, Null) EXCEPT !.m_capacity = @ + growSize]
                      ELSE g.s
                 pool == IF g.pool = Null THEN Len(g.s.heap) + 1 ELSE g.pool
             IN  IF t.m_current = Null
                 \* m_current->m_next = pool through a null m_current: where the
                 \* store does not trap, m_current->m_next reads back pool
                 THEN [t EXCEPT !.ub = @ \cup {"null_deref"}, !.m_current = pool]
                 ELSE [t EXCEPT !.heap[t.m_current].m_next = pool, !.m_current = pool]

\* Mutant of alloc: the cursor is not advanced.
allocNoAdvance(s) ==
    IF s.m_current = Null THEN [s |-> s, ptr |-> NullPtr, grew |-> "no"]
    ELSE LET s0 == Touch(s, s.m_current)
             c == s0.heap[s0.m_current]
             full == c.m_currentIdx = c.m_poolsize
             r == IF full THEN resize(s0, c.m_poolsize) ELSE s0
             r1 == Touch(r, r.m_current)
             cur == r1.m_current
         IN  [s |-> r1,
              ptr |-> [buf |-> r1.heap[cur].m_pool, idx |-> r1.heap[cur].m_currentIdx],
              grew |-> IF ~full THEN "no"
                       ELSE IF Len(r.heap) > Len(s.heap) THEN "new" ELSE "reused"]

\* Mutant of alloc: a pool without a Pool object grows by one element
\* instead of returning null.
allocGrowsEmpty(s) ==
    LET s0 == IF s.m_current = Null THEN resize(s, 1) ELSE Touch(s, s.m_current)
        c == s0.heap[s0.m_current]
        full == c.m_currentIdx = c.m_poolsize
        r == IF full THEN resize(s0, c.m_poolsize) ELSE s0
        r1 == Touch(r, r.m_current)
        cur == r1.m_current
    IN  [s |-> [r1 EXCEPT !.heap[cur].m_currentIdx = @ + 1],
         ptr |-> [buf |-> r1.heap[cur].m_pool, idx |-> r1.heap[cur].m_currentIdx],
         grew |-> IF ~full THEN "no"
                  ELSE IF Len(r.heap) > Len(s.heap) THEN "new" ELSE "reused"]

alloc(s) ==
    IF s.m_current = Null THEN [s |-> s, ptr |-> NullPtr, grew |-> "no"]
    ELSE LET s0 == Touch(s, s.m_current)
             c == s0.heap[s0.m_current]
             full == c.m_currentIdx = c.m_poolsize
             r == IF full THEN resize(s0, c.m_poolsize) ELSE s0
             r1 == Touch(r, r.m_current)
             cur == r1.m_current
         IN  [s |-> [r1 EXCEPT !.heap[cur].m_currentIdx = @ + 1],
              ptr |-> [buf |-> r1.heap[cur].m_pool, idx |-> r1.heap[cur].m_currentIdx],
              grew |-> IF ~full THEN "no"
                       ELSE IF Len(r.heap) > Len(s.heap) THEN "new" ELSE "reused"]

reserve(s, size) ==
    LET c == clear(s)
        n == PoolNew(c, size, Null)
        p == Len(n.heap)
        a == NewArray(n, size)
    IN  [a EXCEPT !.m_first = p, !.m_current = p,
                  !.heap[p].m_pool = Len(a.bufs),
                  !.heap[p].m_poolsize = size,
                  !.m_capacity = size]

\* Mutant of reset: the free list is emptied as well.
resetDropsFreeList(s) == [s EXCEPT !.m_current = s.m_first, !.m_freeList = Null]

reset(s) == [s EXCEPT !.m_current = s.m_first]

capacity(s) == s.m_capacity

freeMem(s) ==
    IF s.m_current = Null THEN 0
    ELSE s.heap[s.m_current].m_poolsize - s.heap[s.m_current].m_currentIdx

\* reads m_current->m_currentIdx without a null check; what it writes goes to
\* the caller's string, which is not part of the state
dumpAllocations(s) ==
    IF s.m_current = Null THEN [s EXCEPT !.ub = @ \cup {"null_deref"}]
    ELSE Touch(s, s.m_current)

(***************************************************************************)
(* Pool objects and arrays nothing refers to any more.  A Pool object that *)
(* was deleted once and that no chain from m_first, m_current or           *)
(* m_freeList leads to is never read again, and neither is an array that   *)
(* was freed once: they are dropped from the state and the remaining       *)
(* objects renumbered in creation order, so that MaxPools bounds the Pool  *)
(* objects held at one time.  A live Pool object that no chain leads to    *)
(* (a leaked one) stays, with its cursor and link blanked; an object       *)
(* deleted twice stays as it is.  Arrays that were never freed and that no *)
(* Pool object holds (leaked ones) are all alike: the oldest one stays.    *)
(***************************************************************************)
RECURSIVE ChainOf(_, _, _)
ChainOf(s, p, steps) ==
    IF p = Null \/ steps = 0 THEN {}
    ELSE {p} \cup ChainOf(s, s.heap[p].m_next, steps - 1)

Pointed(s) ==
    ChainOf(s, s.m_first, Len(s.heap)) \cup ChainOf(s, s.m_current, Len(s.heap))
        \cup ChainOf(s, s.m_freeList, Len(s.heap))

KeptPools(s, R) ==
    {p \in 1..Len(s.heap) : s.heap[p].deleted # 1 \/ p \in R}

Held(s) == {s.heap[p].m_pool : p \in 1..Len(s.heap)}

Orphans(s, H) == {b \in 1..Len(s.bufs) : s.bufs[b].freed = 0 /\ b \notin H}

KeptArrays(s, H, O) ==
    {b \in 1..Len(s.bufs) :
        \/ s.bufs[b].freed > 1
        \/ s.bufs[b].freed = 0 /\ b \in H
        \/ b \in O /\ \A o \in O : b <= o}

\* the numbers 1..n that are in S, in increasing order
Sorted(S, n) == SelectSeq([i \in 1..n |-> i], LAMBDA i : i \in S)

\* the new number of object x when only the objects in S are kept
Rank(S, x) == IF x = Null THEN Null ELSE Cardinality({y \in S : y <= x})

Forget(s) ==
    LET R == Pointed(s)
        H == Held(s)
        O == Orphans(s, H)
        P == KeptPools(s, R)
        B == KeptArrays(s, H, O)
        ps == Sorted(P, Len(s.heap))
        bs == Sorted(B, Len(s.bufs))
        pool(p) == LET c == s.heap[p]
                   IN  [m_poolsize |-> c.m_poolsize,
                        m_pool |-> Rank(B, c.m_pool),
                        m_currentIdx |-> IF p \in R THEN c.m_currentIdx ELSE 0,
                        m_next |-> IF p \in R THEN Rank(P, c.m_next) ELSE Null,
                        deleted |-> c.deleted]
    IN  IF Len(ps) = Len(s.heap) /\ Len(bs) = Len(s.bufs) /\ P = R THEN s
        ELSE [s EXCEPT !.heap = [k \in 1..Len(ps) |-> pool(ps[k])],
                       !.bufs = [k \in 1..Len(bs) |-> s.bufs[bs[k]]],
                       !.m_first = Rank(P, s.m_first),
                       !.m_current = Rank(P, s.m_current),
                       !.m_freeList = Rank(P, s.m_freeList)]

\* TPoolAllocator()
TPoolAllocator0 == Mem(<<>>, <<>>, Null, Null, Null, 0)

\* Mutant of TPoolAllocator(numItems): m_capacity stays 0.
TPoolAllocatorNoCapacity(numItems) ==
    LET p == PoolNew(TPoolAllocator0, numItems, Null)
    IN  [p EXCEPT !.m_first = Len(p.heap),
                  !.m_current = Len(p.heap)]

\* TPoolAllocator(numItems)
TPoolAllocatorN(numItems) ==
    LET p == PoolNew(TPoolAllocator0, numItems, Null)
    IN  [p EXCEPT !.m_first = Len(p.heap),
                  !.m_capacity = @ + numItems,
                  !.m_current = Len(p.heap)]

\* ~TPoolAllocator(); the members end with the object
destroy(s) ==
    [clear(s) EXCEPT !.m_first = Null, !.m_current = Null, !.m_freeList = Null]

(***************************************************************************)
(* The state machine: one action per public operation.                     *)
(***************************************************************************)
ScnOff == [phase |-> 0, n |-> 0, k |-> 0, cap |-> 0]

\* the values of the history variables after a call
Hist(op, n, p, g, iss, sz, cl, sc) ==
    [lastOp |-> op, arg |-> n, ptr |-> p, grew |-> g, issued |-> iss,
     sized |-> sz, cleared |-> cl, scn |-> sc]

\* the history variables as they are
Same == Hist(lastOp, arg, ptr, grew, issued, sized, cleared, scn)

Set(s, st, f, h) ==
    /\ heap' = s.heap
    /\ bufs' = s.bufs
    /\ m_first' = s.m_first
    /\ m_current' = s.m_current
    /\ m_freeList' = s.m_freeList
    /\ m_capacity' = s.m_capacity
    /\ status' = st
    /\ fault' = f
    /\ lastOp' = h.lastOp
    /\ arg' = h.arg
    /\ ptr' = h.ptr
    /\ grew' = h.grew
    /\ issued' = h.issued
    /\ sized' = h.sized
    /\ cleared' = h.cleared
    /\ scn' = h.scn
    /\ UNCHANGED <<variantVars, queueVars>>

Init ==
    \E n \in {0} \cup Sizes :
        LET s == IF n = 0 THEN TPoolAllocator0 ELSE TPoolAllocatorN(n)
        IN  /\ heap = s.heap
            /\ bufs = s.bufs
            /\ m_first = s.m_first
            /\ m_current = s.m_current
            /\ m_freeList = s.m_freeList
            /\ m_capacity = s.m_capacity
            /\ status = "alive"
            /\ fault = {}
            /\ lastOp = "construct"
            /\ arg = n
            /\ ptr = NullPtr
            /\ grew = "no"
            /\ issued = {}
            /\ sized = (n # 0)
            /\ cleared = FALSE
            /\ scn = IF n = 0 THEN ScnOff ELSE [phase |-> 1, n |-> n, k |-> 0, cap |-> 0]
            /\ VariantInit
            /\ QueueInit

\* The call op leaves the memory s2 and the history h.  A call that committed
\* undefined behaviour either carried on as s2 says or ended the process, whose
\* memory is then gone.  No call is made after the destructor or after
\* undefined behaviour.
Commit(s2, done, h) ==
    \E s3 \in {Forget(s2)} :
        /\ Len(s3.heap) <= MaxPools
        /\ \E crash \in IF s3.ub = {} THEN {FALSE} ELSE BOOLEAN :
               IF crash
               THEN Set(TPoolAllocator0, "crashed", s3.ub,
                        Hist(h.lastOp, h.arg, NullPtr, "no", {}, FALSE, FALSE, ScnOff))
               ELSE Set(s3, done, s3.ub, h)

Callable == status = "alive" /\ fault = {}

Alloc ==
    /\ Callable
    /\ LET a == alloc(Cur)
       IN  Commit(a.s, "alive",
                  Hist("alloc", 0, a.ptr, a.grew, issued \cup ({a.ptr} \ {NullPtr}),
                       sized, cleared,
                       IF scn.phase = 0 \/ scn.k > scn.n THEN ScnOff
                       ELSE [scn EXCEPT !.k = @ + 1,
                                        !.cap = IF scn.phase = 1 /\ scn.k = scn.n
                                                THEN a.s.m_capacity ELSE @]))

Release ==
    /\ Callable
    /\ Commit(release(Cur), "alive",
              Hist("release", 0, NullPtr, "no", {}, sized, cleared,
                   IF scn.phase = 1 /\ scn.k = scn.n + 1
                   THEN [scn EXCEPT !.phase = 2, !.k = 0] ELSE ScnOff))

Reserve ==
    /\ Callable
    /\ \E size \in Sizes :
           Commit(reserve(Cur, size), "alive",
                  Hist("reserve", size, NullPtr, "no", {}, TRUE, FALSE, ScnOff))

Clear ==
    /\ Callable
    /\ Commit(clear(Cur), "alive",
              Hist("clear", 0, NullPtr, "no", {}, sized, TRUE, ScnOff))

Resize ==
    /\ Callable
    /\ \E growSize \in Sizes :
           Commit(resize(Cur, growSize), "alive",
                  Hist("resize", growSize, NullPtr, "no", issued, TRUE, FALSE, ScnOff))

Reset ==
    /\ Callable
    /\ Commit(reset(Cur), "alive",
              Hist("reset", 0, NullPtr, "no", issued, sized, cleared, ScnOff))

DumpAllocations ==
    /\ Callable
    /\ Commit(dumpAllocations(Cur), "alive", Same)

Destroy ==
    /\ Callable
    /\ Commit(destroy(Cur), "destroyed",
              Hist("destroy", 0, NullPtr, "no", {}, sized, cleared, ScnOff))

Next ==
    \/ Alloc
    \/ Release
    \/ Reserve
    \/ Clear
    \/ Resize
    \/ Reset
    \/ DumpAllocations
    \/ Destroy

Spec == Init /\ [][Next]_vars

(***************************************************************************)
(* Structure of the memory.                                                *)
(***************************************************************************)
Pools == 1..Len(heap)
Live(p) == p \in Pools /\ heap[p].deleted = 0

\* the Pool objects met by following m_next from p, at most steps links
RECURSIVE Chain(_, _)
Chain(p, steps) ==
    IF p = Null \/ steps = 0 THEN {} ELSE {p} \cup Chain(heap[p].m_next, steps - 1)

FromFirst == Chain(m_first, Len(heap))
FromFreeList == Chain(m_freeList, Len(heap))

RECURSIVE ChainLen(_, _)
ChainLen(p, steps) ==
    IF p = Null \/ steps = 0 THEN 0 ELSE 1 + ChainLen(heap[p].m_next, steps - 1)

TypeOK ==
    /\ m_first \in 0..Len(heap)
    /\ m_current \in 0..Len(heap)
    /\ m_freeList \in 0..Len(heap)
    /\ m_capacity \in 0..(2 * MaxPools * MaxSize)
    /\ status \in {"alive", "destroyed", "crashed"}
    /\ \A p \in Pools : /\ heap[p].m_next \in 0..Len(heap)
                        /\ heap[p].m_pool \in 0..Len(bufs)
                        /\ heap[p].m_poolsize \in {0} \cup Sizes
                        /\ heap[p].m_currentIdx \in 0..heap[p].m_poolsize

\* no m_next cycle: the walks of clear() and release() end at a null link
ChainAcyclic ==
    \A p \in Pools : ChainLen(p, Len(heap) + 1) <= Len(heap)

CurrentImpliesFirst == m_current # Null => m_first # Null

(***************************************************************************)
(* Claims.                                                                 *)
(***************************************************************************)

\* C1: after clear() the pool is in the empty state: m_first, m_current and
\* m_freeList are null and capacity() is 0.
C1_ClearEmptiesPool ==
    (lastOp = "clear" /\ status = "alive")
        => /\ m_first = Null
           /\ m_current = Null
           /\ m_freeList = Null
           /\ capacity(Cur) = 0

\* C2: when the pool has been destroyed, whatever operations came before, no
\* Pool object and no array was deleted more than once.
C2_DestroyedOnce ==
    status = "destroyed"
        => /\ \A p \in Pools : heap[p].deleted <= 1
           /\ \A b \in 1..Len(bufs) : bufs[b].freed <= 1

\* C3: every Pool object that was created and not deleted is reachable from
\* m_first by m_next links, so that the walk of clear() deletes it.
C3_LiveReachable ==
    (status = "alive" /\ fault = {})
        => \A p \in Pools : Live(p) => p \in FromFirst

C5_UnsizedAllocNull ==
    (~sized /\ status = "alive")
        => /\ lastOp = "alloc" => ptr = NullPtr
           /\ heap = <<>>
           /\ bufs = <<>>
           /\ m_first = Null
           /\ m_current = Null
           /\ m_freeList = Null
           /\ capacity(Cur) = 0

C5_Witness == ~sized /\ lastOp = "alloc" /\ status = "alive" /\ fault = {}

\* C6: an alloc() after clear(), with no reserve() or resize() in between,
\* returns null.
C6_AllocNullAfterClear ==
    (lastOp = "alloc" /\ cleared /\ status = "alive") => ptr = NullPtr

\* C7: in a state that clear() has left, a further clear() changes nothing
\* and deletes nothing.
C7_ClearIdempotent ==
    (lastOp = "clear" /\ Callable) => clear(Cur) = Cur

C7_Witness ==
    /\ lastOp = "clear" /\ Callable
    /\ Len(heap) >= 2
    /\ \A p \in Pools : heap[p].deleted = 1

\* C8: reserve(m) leaves exactly one Pool object that is not deleted; it has
\* size m and cursor 0 and is m_first and m_current; the free list is empty and
\* capacity() is m.
C8_ReserveOneChunk ==
    (lastOp = "reserve" /\ status = "alive")
        => /\ m_first # Null
           /\ m_current = m_first
           /\ m_freeList = Null
           /\ capacity(Cur) = arg
           /\ heap[m_first].m_poolsize = arg
           /\ heap[m_first].m_currentIdx = 0
           /\ heap[m_first].m_next = Null
           /\ \A p \in Pools : Live(p) <=> p = m_first

\* the number of alloc() calls from s on, at most n, before one that grows
\* the pool or returns null
RECURSIVE AllocsBeforeGrowth(_, _)
AllocsBeforeGrowth(s, n) ==
    IF n = 0 THEN 0
    ELSE LET a == alloc(s)
         IN  IF a.grew = "no" /\ a.ptr # NullPtr
             THEN 1 + AllocsBeforeGrowth(a.s, n - 1)
             ELSE 0

C10_GrowthReuses ==
    /\ (Callable /\ m_current # Null /\ m_freeList # Null)
         => \A growSize \in Sizes :
                growSize >= heap[m_current].m_poolsize
                    => LET r == resize(Cur, growSize)
                       IN  /\ r.m_current = m_freeList
                           /\ Len(r.heap) = Len(heap)
                           /\ capacity(r) = capacity(Cur)
    /\ (scn.phase = 2 /\ scn.k = scn.n + 1)
         => /\ grew = "reused"
            /\ capacity(Cur) = scn.cap
            /\ Len(heap) = 2

C10_Witness == scn.phase = 2 /\ scn.k = scn.n + 1 /\ scn.n = 2 /\ status = "alive"

C13_BuffersKept ==
    [][(/\ lastOp' \in {"alloc", "release", "reset", "resize"}
        /\ status' = "alive")
         => /\ Len(bufs') >= Len(bufs)
            /\ \A b \in 1..Len(bufs) : bufs'[b].freed = bufs[b].freed
            /\ \A p \in Pools :
                   Live(p) => /\ p <= Len(heap')
                              /\ heap'[p].deleted = 0
                              /\ heap'[p].m_pool = heap[p].m_pool
                              /\ heap'[p].m_poolsize = heap[p].m_poolsize
            /\ \A sl \in issued :
                   bufs[sl.buf].freed = 0 => bufs'[sl.buf].freed = 0]_vars

C13_Witness ==
    /\ lastOp = "release" /\ Callable
    /\ Len(heap) = 3 /\ \A p \in Pools : Live(p)
    /\ Cardinality(FromFreeList) = 2

\* the sum of the sizes of the Pool objects 1..k that are not deleted
RECURSIVE LiveSizes(_)
LiveSizes(k) ==
    IF k = 0 THEN 0
    ELSE LiveSizes(k - 1) + (IF heap[k].deleted = 0 THEN heap[k].m_poolsize ELSE 0)

\* C14: capacity() is the sum of the sizes of the Pool objects that were
\* created and not deleted.
C14_CapacityIsSum ==
    Callable => capacity(Cur) = LiveSizes(Len(heap))

\* C15: across every step of alloc(), release(), reset() and resize()
\* capacity() does not decrease.
C15_CapacityMonotone ==
    [][(/\ lastOp' \in {"alloc", "release", "reset", "resize"}
        /\ status' = "alive")
         => capacity([Cur EXCEPT !.m_capacity = m_capacity']) >= capacity(Cur)]_vars

C15_Witness ==
    /\ lastOp = "resize" /\ Callable /\ arg = MaxSize
    /\ capacity(Cur) = 3 * MaxSize

\* the Pool objects met from p on before m_current is reached
RECURSIVE Before(_, _)
Before(p, steps) ==
    IF p = Null \/ p = m_current \/ steps = 0 THEN {}
    ELSE {p} \cup Before(heap[p].m_next, steps - 1)

\* C18: every Pool object that precedes m_current in the chain from m_first is
\* full.
C18_PrecedingFull ==
    (Callable /\ m_current \in FromFirst)
        => \A p \in Before(m_first, Len(heap)) :
               heap[p].m_currentIdx = heap[p].m_poolsize

\* C19: m_current is null or a Pool object that is not deleted and that is
\* reachable from m_first.
C19_CurrentInChain ==
    Callable => (m_current = Null \/ (Live(m_current) /\ m_current \in FromFirst))

\* C20: every Pool object on the free list has cursor 0.
C20_FreeListRewound ==
    Callable => \A p \in FromFreeList : heap[p].m_currentIdx = 0

C20_Witness ==
    /\ lastOp = "alloc" /\ grew = "reused" /\ Callable
    /\ m_freeList # Null /\ Live(m_freeList)

\* C21: growth that takes a Pool object from the free list takes one at least
\* as large as the size asked for: the full Pool object's size when alloc()
\* grows, growSize when resize(growSize) does.
C21_ReusedLargeEnough ==
    (Callable /\ Live(m_current) /\ m_freeList # Null)
        => /\ \A growSize \in Sizes :
                  LET r == resize(Cur, growSize)
                  IN  r.m_freeList # m_freeList
                          => r.heap[r.m_current].m_poolsize >= growSize
           /\ LET a == alloc(Cur)
              IN  a.grew = "reused"
                      => a.s.heap[a.s.m_current].m_poolsize
                             >= heap[m_current].m_poolsize

\* the sizes of the Pool objects met by following m_next from p, in order
RECURSIVE ChainSizes(_, _)
ChainSizes(p, steps) ==
    IF p = Null \/ steps = 0 THEN <<>>
    ELSE <<heap[p].m_poolsize>> \o ChainSizes(heap[p].m_next, steps - 1)

\* C22: the sizes along the chain from m_first never decrease.
C22_SizesNonDecreasing ==
    (Callable /\ Live(m_first))
        => LET sz == ChainSizes(m_first, Len(heap))
           IN  \A k \in 1..(Len(sz) - 1) : sz[k] <= sz[k + 1]

C22_Witness ==
    /\ Callable /\ Live(m_first)
    /\ ChainSizes(m_first, Len(heap)) = <<1, 2, 2>>

\* C23: reset() sets m_current to m_first and changes nothing else: no Pool
\* object's cursor, size, array or link, not the free list, m_first or
\* capacity().
C23_ResetFrame ==
    [][(lastOp' = "reset" /\ Reset)
         => /\ m_current' = m_first
            /\ heap' = heap
            /\ bufs' = bufs
            /\ m_first' = m_first
            /\ m_freeList' = m_freeList
            /\ m_capacity' = m_capacity]_vars

C23_Witness ==
    /\ lastOp = "reset" /\ Callable
    /\ m_current = m_first /\ Live(m_first)
    /\ heap[m_first].m_currentIdx > 0
    /\ heap[m_first].m_next # Null
    /\ m_freeList # Null

\* C24: after reserve() every array that was allocated and not freed is the
\* array of exactly one Pool object that is not deleted.
C24_ReserveOneArray ==
    (lastOp = "reserve" /\ Callable)
        => \A b \in 1..Len(bufs) :
               bufs[b].freed = 0
                   => Cardinality({p \in Pools : Live(p) /\ heap[p].m_pool = b}) = 1

\* C25: no operation reads or writes through a null m_current or m_first.
C25_NoNullDeref == "null_deref" \notin fault

(***************************************************************************)
(* Variant.  A Variant owns at most one byte buffer, m_pData, made by      *)
(* new[]; a buffer is its size, its bytes and the number of delete[] on    *)
(* it.  A byte that was never written is Junk (-1).  An i32 or f32 value v is   *)
(* the four bytes v,0,0,0, a bool one byte, a string its characters and a  *)
(* final 0.  A buffer that was freed once and that no object points to is  *)
(* never read again and is dropped.  Buffers never freed that no object    *)
(* points to (leaked ones) are all alike: the oldest one stays, with its   *)
(* bytes blanked.  The code never compares or orders addresses, so the     *)
(* buffers are renumbered: those no object points to first, then a's       *)
(* buffer, then b's.                                                       *)
(***************************************************************************)
\* Largest value passed to a setter.
MaxVal == 1

Junk == -1
Vals == 0..MaxVal
\* the characters 'a' and 'b'
Chars == {97, 98}
\* the strings "", "a" and "b"
Strings == {<<>>} \cup {<<c>> : c \in Chars}
Types == {"None", "Int", "Int3", "Int4", "Float", "Float3", "Float4", "Float4x4",
          "String", "Boolean"}

VMem(o, m) == [obj |-> o, mem |-> m, ub |-> {}]
VCur == VMem(obj, vmem)

\* the bytes of an i32 or f32
Word(v) == <<v, 0, 0, 0>>
\* the bytes of an array of n i32 or f32 holding v, v+1, ...
Words(v, n) == [k \in 1..(4 * n) |-> IF (k - 1) % 4 = 0 THEN v + ((k - 1) \div 4) ELSE 0]
\* the bytes of a bool
BoolByte(value) == <<IF value THEN 1 ELSE 0>>
\* the bytes of a C string
CStr(str) == Append(str, 0)

\* the size reserve() chooses for a type when it is called with size 0
DefaultSize(type) ==
    CASE type = "Int3" -> 4 * 3
      [] type = "Float3" -> 4 * 3
      [] type = "Int4" -> 4 * 4
      [] type = "Float4" -> 4 * 4
      [] type = "Float4x4" -> 4 * 4 * 4
      [] type = "Int" -> 4
      [] type = "Float" -> 4
      [] type = "Boolean" -> 1
      [] OTHER -> 0

\* new uc8[size] / new c8[size]; the new buffer is Len(m.mem) + 1
NewBuffer(m, size) ==
    [m EXCEPT !.mem = Append(@, [size |-> size,
                                 data |-> [k \in 1..size |-> Junk],
                                 freed |-> 0])]

\* delete[] p
DeleteBuffer(m, p) ==
    IF p = Null THEN m
    ELSE [m EXCEPT !.mem[p].freed = @ + 1,
                   !.ub = IF m.mem[p].freed > 0 THEN @ \cup {"double_delete"} ELSE @]

\* the undefined behaviour of reading or writing n bytes at p
Access(m, p, n) ==
    IF n = 0 THEN {}
    ELSE IF p = Null THEN {"null_deref"}
    ELSE (IF m.mem[p].freed > 0 THEN {"use_after_free"} ELSE {})
            \cup (IF n > m.mem[p].size THEN {"out_of_bounds"} ELSE {})

\* the n bytes read at p; bytes outside the buffer are Junk
Load(m, p, n) ==
    [k \in 1..n |-> IF p # Null /\ k <= m.mem[p].size THEN m.mem[p].data[k] ELSE Junk]

\* memcpy( x.m_pData, bytes, Len(bytes) )
Store(m, x, bytes) ==
    LET p == m.obj[x].m_pData
        u == [m EXCEPT !.ub = @ \cup Access(m, p, Len(bytes))]
    IN  IF p = Null THEN u
        ELSE [u EXCEPT !.mem[p].data =
                  [k \in 1..m.mem[p].size |-> IF k <= Len(bytes) THEN bytes[k] ELSE @[k]]]

\* memcpy( x.m_pData, y.m_pData, n )
Copy(m, x, y, n) ==
    LET q == m.obj[y].m_pData
    IN  Store([m EXCEPT !.ub = @ \cup Access(m, q, n)], x, Load(m, q, n))

Variant_reserve(m, x, type, size) ==
    LET sz == IF size = 0 THEN DefaultSize(type) ELSE size
        n == NewBuffer(m, sz)
    IN  [n EXCEPT !.obj[x].m_BufferSize = sz,
                  !.obj[x].m_pData = Len(n.mem),
                  !.obj[x].m_Type = type]

Variant_clear(m, x) ==
    IF m.obj[x].m_Type = "None" THEN m
    ELSE [DeleteBuffer(m, m.obj[x].m_pData) EXCEPT !.obj[x].m_pData = Null,
                                                    !.obj[x].m_Type = "None"]

\* setInt, setFloat, setInt3, ..., setBool: clear(), reserve( type, 0 ), then
\* the value is written
Variant_set(m, x, type, bytes) ==
    Store(Variant_reserve(Variant_clear(m, x), x, type, 0), x, bytes)

Variant_setInt(m, x, val) == Variant_set(m, x, "Int", Word(val))
Variant_setInt3(m, x, val1, val2, val3) ==
    Variant_set(m, x, "Int3", Word(val1) \o Word(val2) \o Word(val3))
Variant_setInt4(m, x, val1, val2, val3, val4) ==
    Variant_set(m, x, "Int4", Word(val1) \o Word(val2) \o Word(val3) \o Word(val4))
Variant_setFloat(m, x, val) == Variant_set(m, x, "Float", Word(val))
Variant_setFloat3(m, x, val1, val2, val3) ==
    Variant_set(m, x, "Float3", Word(val1) \o Word(val2) \o Word(val3))
Variant_setFloat4(m, x, val1, val2, val3, val4) ==
    Variant_set(m, x, "Float4", Word(val1) \o Word(val2) \o Word(val3) \o Word(val4))
\* pData: the 64 bytes of the caller's 4x4 array
Variant_setFloat4x4(m, x, pData) == Variant_set(m, x, "Float4x4", pData)
Variant_setBool(m, x, value) == Variant_set(m, x, "Boolean", BoolByte(value))

\* m_BufferSize keeps the value it had
Variant_setString(m, x, str) ==
    LET c == Variant_clear(m, x)
        n == NewBuffer(c, Len(str) + 1)
    IN  Store([n EXCEPT !.obj[x].m_Type = "String", !.obj[x].m_pData = Len(n.mem)],
              x, CStr(str))

\* memcmp( p, q, n ) = 0: the possible answers (a Junk byte has any value)
SameBytes(m, p, q, n) ==
    LET l1 == Load(m, p, n)
        l2 == Load(m, q, n)
    IN  IF \E k \in 1..n : l1[k] # Junk /\ l2[k] # Junk /\ l1[k] # l2[k] THEN {FALSE}
        ELSE IF p # q /\ \E k \in 1..n : l1[k] = Junk \/ l2[k] = Junk THEN BOOLEAN
        ELSE {TRUE}

\* x == rOther: the possible results with the undefined behaviour of each
Variant_eq(m, x, rOther) ==
    LET me == m.obj[x]
        o == m.obj[rOther]
    IN  IF o.m_Type # me.m_Type THEN {[ret |-> FALSE, ub |-> {}]}
        ELSE IF o.m_BufferSize # me.m_BufferSize THEN {[ret |-> FALSE, ub |-> {}]}
        ELSE {[ret |-> r,
               ub |-> Access(m, o.m_pData, me.m_BufferSize)
                        \cup Access(m, me.m_pData, me.m_BufferSize)] :
                 r \in SameBytes(m, o.m_pData, me.m_pData, me.m_BufferSize)}

\* x = rOther: the possible memories after it
Variant_assign(m, x, rOther) ==
    {IF e.ret THEN [m EXCEPT !.ub = @ \cup e.ub]
     ELSE LET ty == m.obj[rOther].m_Type
              r == Variant_reserve([m EXCEPT !.ub = @ \cup e.ub, !.obj[x].m_Type = ty],
                                   x, ty, 0)
          IN  Copy(r, x, rOther, r.obj[x].m_BufferSize) :
        e \in Variant_eq(m, rOther, x)}

\* the characters at p up to the first 0 byte, as CString( const c8* ) reads them
ReadCStr(m, p) ==
    IF p = Null THEN [str |-> <<>>, ub |-> {"null_deref"}]
    ELSE LET d == m.mem[p].data
             ends == {k \in 1..m.mem[p].size : d[k] = 0}
             n == IF ends = {} THEN m.mem[p].size
                  ELSE (CHOOSE k \in ends : \A j \in ends : k <= j) - 1
         IN  [str |-> [k \in 1..n |-> d[k]],
              ub |-> (IF ends = {} THEN {"out_of_bounds"} ELSE {})
                        \cup (IF m.mem[p].freed > 0 THEN {"use_after_free"} ELSE {})]

\* getType()
Variant_getType(m, x) == m.obj[x].m_Type

\* getInt(), getInt3(), ..., getBool(): what the caller reads through the
\* getter of the given type, with the undefined behaviour of reading it
Variant_getValue(m, x, type) ==
    [val |-> Load(m, m.obj[x].m_pData, DefaultSize(type)),
     ub |-> Access(m, m.obj[x].m_pData, DefaultSize(type))]

\* getString(): the C string the caller reads at the pointer returned
Variant_getString(m, x) ==
    LET c == ReadCStr(m, m.obj[x].m_pData)
    IN  [val |-> c.str, ub |-> c.ub]

\* the getter of x's type (there is none for None)
Variant_get(m, x) ==
    IF Variant_getType(m, x) = "None" THEN [val |-> <<>>, ub |-> {}]
    ELSE IF Variant_getType(m, x) = "String" THEN Variant_getString(m, x)
    ELSE Variant_getValue(m, x, Variant_getType(m, x))

Variant_isValid(type, numItems) ==
    IF type \in {"Int", "Float"} THEN numItems = 1
    ELSE IF type \in {"Int3", "Float3"} THEN numItems = 3
    ELSE IF type \in {"Int4", "Float4"} THEN numItems = 4
    ELSE IF type = "String" THEN numItems # 0
    ELSE type = "None"

\* a new object x: the members as every constructor initialises them
Fresh(m, x, type) ==
    [m EXCEPT !.obj[x] = [m_Type |-> type, m_BufferSize |-> 0, m_pData |-> Null,
                          life |-> "alive"]]

\* Variant()
Variant_default(m, x) == Fresh(m, x, "None")

\* Variant( type, pData, numItems ); pData is the bytes of the caller's buffer
Variant_data(m, x, type, pData, numItems) ==
    LET f == Fresh(m, x, "None")
    IN  IF ~Variant_isValid(type, numItems) THEN f
        ELSE LET s == [f EXCEPT !.obj[x].m_Type = type]
             IN  IF type = "String"
                 THEN Variant_setString(s, x, SubSeq(pData, 1, Len(pData) - 1))
                 ELSE LET r == Variant_reserve(s, x, type, 0)
                      IN  Store(r, x, SubSeq(pData, 1, r.obj[x].m_BufferSize))

\* Variant( bool )
Variant_bool(m, x, value) ==
    Store(Variant_reserve(Fresh(m, x, "Boolean"), x, "Boolean", 0), x, BoolByte(value))

\* Variant( const Variant &other )
Variant_copy(m, x, other) ==
    LET ty == m.obj[other].m_Type
        s == [Fresh(m, x, "None") EXCEPT !.obj[x].m_Type = ty]
    IN  IF ty = "String"
        THEN LET c == ReadCStr(s, s.obj[other].m_pData)
             IN  Variant_setString([s EXCEPT !.ub = @ \cup c.ub], x, c.str)
        ELSE LET r == Variant_reserve(s, x, ty, 0)
             IN  Copy(r, x, other, r.obj[x].m_BufferSize)

\* ~Variant(); the members end with the object
Variant_destroy(m, x) ==
    [Variant_clear(m, x) EXCEPT !.obj[x] = [Variant0 EXCEPT !.life = "destroyed"]]

\* buffers that nothing reads again are dropped or blanked, the others
\* renumbered (see above)
NameSeq == <<"a", "b">>
NameIdx(x) == CHOOSE k \in 1..Len(NameSeq) : NameSeq[k] = x
Place(seq, p) == IF p = Null THEN Null ELSE CHOOSE k \in 1..Len(seq) : seq[k] = p
VForget(m) ==
    LET P == {m.obj[x].m_pData : x \in Names} \ {Null}
        L == {b \in 1..Len(m.mem) : m.mem[b].freed = 0 /\ b \notin P}
        U == {b \in 1..Len(m.mem) :
                 /\ b \notin P
                 /\ \/ m.mem[b].freed > 1
                    \/ b \in L /\ \A l \in L : b <= l}
        owned == SelectSeq(NameSeq,
                           LAMBDA x : /\ m.obj[x].m_pData # Null
                                      /\ \A y \in Names :
                                             (m.obj[y].m_pData = m.obj[x].m_pData
                                                 /\ NameIdx(y) <= NameIdx(x))
                                                => y = x)
        bs == Sorted(U, Len(m.mem)) \o [k \in 1..Len(owned) |-> m.obj[owned[k]].m_pData]
        buffer(b) == IF b \in L THEN [size |-> 0, data |-> <<>>, freed |-> 0]
                     ELSE m.mem[b]
    IN  [m EXCEPT !.mem = [k \in 1..Len(bs) |-> buffer(bs[k])],
                  !.obj = [x \in Names |-> [m.obj[x] EXCEPT !.m_pData = Place(bs, @)]]]

(***************************************************************************)
(* The state machine of SpecVariant: one action per constructor, method    *)
(* and operator, on either object.                                         *)
(***************************************************************************)
PoolInit ==
    /\ heap = <<>>
    /\ bufs = <<>>
    /\ m_first = Null
    /\ m_current = Null
    /\ m_freeList = Null
    /\ m_capacity = 0
    /\ status = "alive"
    /\ fault = {}
    /\ lastOp = "construct"
    /\ arg = 0
    /\ ptr = NullPtr
    /\ grew = "no"
    /\ issued = {}
    /\ sized = FALSE
    /\ cleared = FALSE
    /\ scn = ScnOff

InitVariant == PoolInit /\ VariantInit /\ QueueInit

\* The call leaves the memory m2.  A call that committed undefined behaviour
\* either carried on as m2 says or ended the process.  No call is made after
\* undefined behaviour.
VCommit(m2, op) ==
    \E m3 \in {VForget(m2)} :
        /\ \E crash \in IF m3.ub = {} THEN {FALSE} ELSE BOOLEAN :
               /\ obj' = IF crash THEN [x \in Names |-> [Variant0 EXCEPT !.life = "crashed"]]
                         ELSE m3.obj
               /\ vmem' = IF crash THEN <<>> ELSE m3.mem
        /\ vfault' = m3.ub
        /\ vop' = op
        /\ UNCHANGED <<poolVars, queueVars>>

VCallable == vfault = {}
Alive(x) == obj[x].life = "alive"
Destroyed(x) == obj[x].life = "destroyed"

ConstructDefault ==
    /\ VCallable
    /\ \E x \in Names :
           /\ Destroyed(x)
           /\ VCommit(Variant_default(VCur, x), Call)

ConstructData ==
    /\ VCallable
    /\ \E x \in Names, type \in Types \ {"String"}, numItems \in {0, 1, 3, 4}, v \in Vals :
           /\ Destroyed(x)
           /\ VCommit(Variant_data(VCur, x, type, Words(v, numItems), numItems),
                      Call)

ConstructString ==
    /\ VCallable
    /\ \E x \in Names, str \in Strings, numItems \in {0, 1} :
           /\ Destroyed(x)
           /\ VCommit(Variant_data(VCur, x, "String", CStr(str), numItems),
                      Call)

ConstructBool ==
    /\ VCallable
    /\ \E x \in Names, value \in BOOLEAN :
           /\ Destroyed(x)
           /\ VCommit(Variant_bool(VCur, x, value), Call)

ConstructCopy ==
    /\ VCallable
    /\ \E x \in Names, other \in Names :
           /\ Destroyed(x)
           /\ Alive(other)
           /\ VCommit(Variant_copy(VCur, x, other), VOp("copy", x, other, FALSE))

DestroyVariant ==
    /\ VCallable
    /\ \E x \in Names :
           /\ Alive(x)
           /\ VCommit(Variant_destroy(VCur, x), Call)

SetInt ==
    /\ VCallable
    /\ \E x \in Names, val \in Vals :
           /\ Alive(x)
           /\ VCommit(Variant_setInt(VCur, x, val), Call)

SetInt3 ==
    /\ VCallable
    /\ \E x \in Names, val \in Vals :
           /\ Alive(x)
           /\ VCommit(Variant_setInt3(VCur, x, val, val + 1, val + 2),
                      Call)

SetInt4 ==
    /\ VCallable
    /\ \E x \in Names, val \in Vals :
           /\ Alive(x)
           /\ VCommit(Variant_setInt4(VCur, x, val, val + 1, val + 2, val + 3),
                      Call)

SetFloat ==
    /\ VCallable
    /\ \E x \in Names, val \in Vals :
           /\ Alive(x)
           /\ VCommit(Variant_setFloat(VCur, x, val), Call)

SetFloat3 ==
    /\ VCallable
    /\ \E x \in Names, val \in Vals :
           /\ Alive(x)
           /\ VCommit(Variant_setFloat3(VCur, x, val, val + 1, val + 2),
                      Call)

SetFloat4 ==
    /\ VCallable
    /\ \E x \in Names, val \in Vals :
           /\ Alive(x)
           /\ VCommit(Variant_setFloat4(VCur, x, val, val + 1, val + 2, val + 3),
                      Call)

SetFloat4x4 ==
    /\ VCallable
    /\ \E x \in Names, val \in Vals :
           /\ Alive(x)
           /\ VCommit(Variant_setFloat4x4(VCur, x, Words(val, 16)),
                      Call)

SetString ==
    /\ VCallable
    /\ \E x \in Names, str \in Strings :
           /\ Alive(x)
           /\ VCommit(Variant_setString(VCur, x, str), Call)

SetBool ==
    /\ VCallable
    /\ \E x \in Names, value \in BOOLEAN :
           /\ Alive(x)
           /\ VCommit(Variant_setBool(VCur, x, value), Call)

ClearVariant ==
    /\ VCallable
    /\ \E x \in Names :
           /\ Alive(x)
           /\ VCommit(Variant_clear(VCur, x), Call)

Assign ==
    /\ VCallable
    /\ \E x \in Names, rOther \in Names :
           /\ Alive(x)
           /\ Alive(rOther)
           /\ \E m2 \in Variant_assign(VCur, x, rOther) :
                  VCommit(m2, VOp("assign", x, rOther, FALSE))

Equals ==
    /\ VCallable
    /\ \E x \in Names, rOther \in Names :
           /\ Alive(x)
           /\ Alive(rOther)
           /\ \E e \in Variant_eq(VCur, x, rOther) :
                  VCommit([VCur EXCEPT !.ub = e.ub], VOp("eq", "a", "a", FALSE))

NextVariant ==
    \/ ConstructDefault
    \/ ConstructData
    \/ ConstructString
    \/ ConstructBool
    \/ ConstructCopy
    \/ DestroyVariant
    \/ SetInt
    \/ SetInt3
    \/ SetInt4
    \/ SetFloat
    \/ SetFloat3
    \/ SetFloat4
    \/ SetFloat4x4
    \/ SetString
    \/ SetBool
    \/ ClearVariant
    \/ Assign
    \/ Equals

SpecVariant == InitVariant /\ [][NextVariant]_vars

VTypeOK ==
    /\ \A x \in Names :
           /\ obj[x].m_Type \in Types
           /\ obj[x].m_pData \in 0..Len(vmem)
           /\ obj[x].life \in {"alive", "destroyed", "crashed"}
    /\ \A b \in 1..Len(vmem) : Len(vmem[b].data) = vmem[b].size

\* C16: the setters and the assignment operator release the buffer the object
\* held: every buffer is either held by exactly one living object and not
\* freed, or was freed exactly once, so that destruction leaves every buffer
\* freed exactly once.
C16_BuffersFreedOnce ==
    VCallable
        => \A b \in 1..Len(vmem) :
               \/ vmem[b].freed = 1
               \/ /\ vmem[b].freed = 0
                  /\ Cardinality({x \in Names : Alive(x) /\ obj[x].m_pData = b}) = 1

\* C26: after a = b and after copy construction of a from b, a has b's type
\* and the getter of that type reads from a what it reads from b, for every
\* type including String.
C26_AssignCopies ==
    (vop.op \in {"assign", "copy"} /\ VCallable)
        => /\ Variant_getType(VCur, vop.x) = Variant_getType(VCur, vop.y)
           /\ Variant_get(VCur, vop.x) = Variant_get(VCur, vop.y)

\* C27: operator== returns true exactly when both objects have the same type
\* and their getters read the same value, whatever set and clear calls came
\* before.
C27_EqualsExact ==
    VCallable
        => \A x \in Names, rOther \in Names :
               (/\ Alive(x) /\ Alive(rOther)
                /\ Variant_get(VCur, x).ub = {}
                /\ Variant_get(VCur, rOther).ub = {})
                   => \A e \in Variant_eq(VCur, x, rOther) :
                          e.ret <=> /\ Variant_getType(VCur, x) = Variant_getType(VCur, rOther)
                                    /\ Variant_get(VCur, x).val = Variant_get(VCur, rOther).val

(***************************************************************************)
(* TQueue<float>: enqueue() adds an item at the back; dequeue() delivers   *)
(* the front item and returns whether items are left, and delivers nothing *)
(* and returns false on an empty queue.                                    *)
(***************************************************************************)
\* Largest number of enqueue() calls between two clear() calls.
MaxEnqueues == 3

\* the items 0.0f, 1.0f and 2.0f
Items == {0, 1, 2}

TQueue_enqueue(q, item) == Append(q, item)

TQueue_isEmpty(q) == q = <<>>

TQueue_size(q) == Len(q)

\* Mutant of TQueue_dequeue: the item added last is delivered.
TQueue_dequeueBack(q) ==
    IF TQueue_isEmpty(q) THEN [q |-> q, delivered |-> FALSE, item |-> 0, ret |-> FALSE]
    ELSE [q |-> SubSeq(q, 1, Len(q) - 1), delivered |-> TRUE, item |-> q[Len(q)],
          ret |-> Len(q) > 1]

TQueue_dequeue(q) ==
    IF TQueue_isEmpty(q) THEN [q |-> q, delivered |-> FALSE, item |-> 0, ret |-> FALSE]
    ELSE [q |-> Tail(q), delivered |-> TRUE, item |-> Head(q),
          ret |-> ~TQueue_isEmpty(Tail(q))]

TQueue_clear(q) == <<>>

InitQueue == PoolInit /\ VariantInit /\ QueueInit

Enqueue ==
    /\ Len(enqueued) < MaxEnqueues
    /\ \E item \in Items :
           /\ f32Queue' = TQueue_enqueue(f32Queue, item)
           /\ enqueued' = Append(enqueued, item)
    /\ qop' = "enqueue"
    /\ UNCHANGED <<qval, hasItems, dequeues, poolVars, variantVars>>

Dequeue ==
    /\ LET d == TQueue_dequeue(f32Queue)
       IN  /\ f32Queue' = d.q
           /\ qval' = IF d.delivered THEN d.item ELSE qval
           /\ hasItems' = d.ret
           /\ qop' = IF d.delivered THEN "dequeue" ELSE "empty"
           /\ dequeues' = IF d.delivered THEN dequeues + 1 ELSE dequeues
    /\ UNCHANGED <<enqueued, poolVars, variantVars>>

ClearQueue ==
    /\ f32Queue' = TQueue_clear(f32Queue)
    /\ qop' = "clear"
    /\ enqueued' = <<>>
    /\ dequeues' = 0
    /\ UNCHANGED <<qval, hasItems, poolVars, variantVars>>

NextQueue ==
    \/ Enqueue
    \/ Dequeue
    \/ ClearQueue

SpecQueue == InitQueue /\ [][NextQueue]_vars

====
